---- MODULE Spec2Model ----
(***************************************************************************)
(* AutoOMR: the App component (view, stored results, localStorage          *)
(* persistence), the upload queue, the timer-driven processing pipeline    *)
(* and the review table (filter, sort, pagination, selection).             *)
(*                                                                         *)
(* Strings the program inspects character by character (student ids and    *)
(* the search term) are sequences of one-character strings; numbers with   *)
(* a fractional part (confidence) are scaled to integers (x100).           *)
(***************************************************************************)
EXTENDS Integers, Sequences, FiniteSets, TLC

\* ------------------------------------------------------------------ bounds
\* Files that ever get a queue id (ids are 1..MaxFiles, never reused).
MaxFiles == 2
\* Files handed to one handleFiles call.
MaxBatch == MaxFiles
\* Processing runs whose timers are pending at the same time.
MaxLiveRuns == 2
\* Stored results the review table starts from in TableSpec.
MaxRows == 3
MaxPageRows == 21
MaxExportRows == 2
MaxInsightCalls == 2
MaxScoredRows == 2

\* rows of the lists whose selection is followed: one page and one row
MaxSelectRows == 11

\* -------------------------------------------------------- program constants
RESULTS_PER_PAGE == 10
QUESTIONS_PER_SECTION == 10
POINTS_PER_ANSWER == 2
PROGRESS_FULL == 100
\* confidence < 0.9 needs review; confidence is scaled by 100
REVIEW_THRESHOLD == 90
APPROVED_CONFIDENCE == 100
\* the clock reading of `new Date()`, in hours since an arbitrary epoch
NOW == 1000
HOURS_PER_DAY == 24


SECTIONS == <<"Data Analytics", "AI/ML", "Data Science", "Generative AI", "Statistics">>

NUM_QUESTIONS == Len(SECTIONS) * QUESTIONS_PER_SECTION

MOCK_STUDENT_IDS ==
  << <<"S","T","0","0","1">>, <<"S","T","0","0","2">>, <<"S","T","0","0","3">>,
     <<"S","T","0","0","4">>, <<"S","T","0","0","5">>, <<"S","T","0","0","6">>,
     <<"S","T","0","0","7">>, <<"S","T","0","0","8">>, <<"S","T","0","0","9">>,
     <<"S","T","0","1","0">> >>

EXAM_SETS == <<"A", "B", "C", "D">>

\* String.fromCharCode(65 + (i % 4)), i counted from 0
LetterOf(i) == EXAM_SETS[(i % 4) + 1]

CORRECT_ANSWERS == [q \in 1..NUM_QUESTIONS |-> LetterOf(q - 1)]

ACCEPTED_TYPES == {"image/jpeg", "image/png", "application/pdf", "application/zip"}

\* the pass mark of the analytics view, and the factor of a percentage
PASS_MARK == 50

PERCENT == 100

\* ------------------------------------------------------------ characters
\* UTF-16 code units of the characters the model's strings use.
Code(c) ==
  CASE c = "-" -> 45
    [] c = "0" -> 48 [] c = "1" -> 49 [] c = "2" -> 50 [] c = "3" -> 51
    [] c = "4" -> 52 [] c = "5" -> 53 [] c = "6" -> 54 [] c = "7" -> 55
    [] c = "8" -> 56 [] c = "9" -> 57
    [] c = "A" -> 65 [] c = "B" -> 66 [] c = "C" -> 67 [] c = "D" -> 68
    [] c = "N" -> 78 [] c = "S" -> 83 [] c = "T" -> 84
    [] c = "s" -> 115 [] c = "t" -> 116 [] c = "x" -> 120

\* String.prototype.toLowerCase, one character
LowerChar(c) ==
  CASE c = "A" -> "a" [] c = "B" -> "b" [] c = "C" -> "c" [] c = "D" -> "d"
    [] c = "N" -> "n" [] c = "S" -> "s" [] c = "T" -> "t"
    [] OTHER -> c

ToLowerCase(s) == [i \in 1..Len(s) |-> LowerChar(s[i])]

\* String.prototype.includes: t occurs in s as a contiguous substring
Includes(s, t) ==
  \E off \in 0..(Len(s) - Len(t)) : SubSeq(s, off + 1, off + Len(t)) = t

\* s < t on strings: lexicographic on code units
RECURSIVE StrLess(_, _)
StrLess(s, t) ==
  IF t = <<>> THEN FALSE
  ELSE IF s = <<>> THEN TRUE
  ELSE IF Code(Head(s)) # Code(Head(t)) THEN Code(Head(s)) < Code(Head(t))
  ELSE StrLess(Tail(s), Tail(t))

\* the first characters of the status and exam-set strings, which decide < on them
Chars(v) ==
  CASE v = "Complete" -> <<"C">>
    [] v = "Needs Review" -> <<"N">>
    [] OTHER -> <<v>>

\* ------------------------------------------------------- mock generation
\* The outcomes of Math.random() in one generateMockResult call: the student-id
\* suffix (100..999), the questions answered correctly, the confidence (x100,
\* 80..99) and the age of the sheet in days (0..29).  A small sample of them.
AllQuestions == 1..NUM_QUESTIONS

MockDraws ==
  { [suffix |-> <<"1","0","0">>, correct |-> AllQuestions, conf |-> 95, daysAgo |-> 0],
    [suffix |-> <<"9","9","9">>, correct |-> {q \in AllQuestions : q % 2 = 1},
     conf |-> 85, daysAgo |-> 1] }

\* the questions of section number s (1..5)
SectionQuestions(s) ==
  ((s - 1) * QUESTIONS_PER_SECTION + 1)..(s * QUESTIONS_PER_SECTION)

RECURSIVE SumOver(_, _)
SumOver(f, S) ==
  IF S = {} THEN 0
  ELSE LET x == CHOOSE y \in S : TRUE IN f[x] + SumOver(f, S \ {x})

\* the answers array of generateMockResult, questions 1..50 in push order, for the
\* set of questions drawn correct.  A result keeps that set in its field answers;
\* nothing ever changes an answers array, and this is the array it stands for.
AnswerDetails(correct) ==
  [q \in AllQuestions |->
     [question |-> q,
      studentAnswer |-> IF q \in correct THEN CORRECT_ANSWERS[q] ELSE LetterOf(q),
      correctAnswer |-> CORRECT_ANSWERS[q],
      isCorrect |-> q \in correct]]

\* a section score of one point for every correct answer
MockSectionScores_OnePoint(draw) ==
  [s \in 1..Len(SECTIONS) |-> Cardinality(SectionQuestions(s) \cap draw.correct)]

\* sectionScore += 2 for every correct answer of the section
MockSectionScores(draw) ==
  [s \in 1..Len(SECTIONS) |->
     POINTS_PER_ANSWER * Cardinality(SectionQuestions(s) \cap draw.correct)]

\* generateMockResult(file, index), index counted from 0
generateMockResult(file, index, draw) ==
  LET scores == MockSectionScores(draw) IN
  [id |-> file.id,
   studentId |-> MOCK_STUDENT_IDS[(index % Len(MOCK_STUDENT_IDS)) + 1] \o <<"-">> \o draw.suffix,
   examSet |-> EXAM_SETS[(index % 4) + 1],
   sectionScores |-> scores,
   totalScore |-> SumOver(scores, DOMAIN scores),
   confidence |-> draw.conf,
   status |-> IF draw.conf < REVIEW_THRESHOLD THEN "Needs Review" ELSE "Complete",
   answers |-> draw.correct,
   processingDate |-> [rep |-> "Date", t |-> NOW - HOURS_PER_DAY * draw.daysAgo]]

\* ------------------------------------------------------------ localStorage
\* A Date serialises (Date.prototype.toJSON) to its ISO string; a value that
\* is already a string serialises to itself.  The instant t is kept.
DateToJSON(d) == [rep |-> "String", t |-> d.t]

ResultToJSON(r) == [r EXCEPT !.processingDate = DateToJSON(@)]

\* JSON.stringify(studentResults): the text, represented by the JSON value it denotes
StringifyResults(results) == [text |-> [i \in 1..Len(results) |-> ResultToJSON(results[i])]]

\* JSON.stringify(totalProcessed)
StringifyTotal(total) == [text |-> total]

\* JSON.parse without a reviver: strings stay strings
JSONParse(s) == s.text

\* localStorage.getItem gives null for a missing key: <<>> here, <<text>> otherwise
NoItem == <<>>

\* ------------------------------------------------------------------ state
VARIABLES
  phase,           \* App mount: "boot", "loadEffectDone", "effectsDone", "ready"
  view,            \* App.view
  omrFiles,        \* App.omrFiles
  studentResults,  \* App.studentResults
  totalProcessed,  \* App.totalProcessed
  isInitialMount,  \* App.isInitialMount.current
  pending,         \* state updates queued by the load effect, applied at the next render
  storage,         \* localStorage: the items 'studentResults' and 'totalProcessed'
  files,           \* UploadView.files (the upload queue)
  nextId,          \* the next fresh queue id
  runs,            \* the processing runs started since the page was loaded
  sortConfig,      \* ResultsView.sortConfig
  searchTerm,      \* ResultsView.searchTerm
  statusFilter,    \* ResultsView.statusFilter
  currentPage,     \* ResultsView.currentPage
  selectedIds,     \* ResultsView.selectedIds
  selectedResult,  \* ResultsView.selectedResult (the review modal), <<>> when closed
  exportStatusFilter, \* ResultsView.exportStatusFilter
  exportStartDate,    \* ResultsView.exportStartDate: <<>> for '', <<day>> for a date
  exportEndDate,      \* ResultsView.exportEndDate
  exported,        \* what the last click on "Export Filtered Results" produced
  insights,        \* AnalyticsView.insights
  isLoadingInsights, \* AnalyticsView.isLoadingInsights
  insightCalls     \* the invocations of generateAnalyticsInsights since the page was loaded

appVars == <<phase, view, omrFiles, studentResults, totalProcessed, isInitialMount,
             pending, storage>>
uploadVars == <<files, nextId>>
exportFilters == <<exportStatusFilter, exportStartDate, exportEndDate>>
tableVars == <<sortConfig, searchTerm, statusFilter, currentPage, selectedIds, selectedResult,
               exportFilters>>
analyticsVars == <<insights, isLoadingInsights, insightCalls>>
vars == <<appVars, uploadVars, runs, tableVars, exported, analyticsVars>>

\* the value of an empty <input type="date">
NoDate == <<>>

\* useState initial values of ResultsView
InitialSortConfig == [key |-> "totalScore", direction |-> "desc"]

TableInit ==
  /\ sortConfig = InitialSortConfig
  /\ searchTerm = <<>>
  /\ statusFilter = "All"
  /\ currentPage = 1
  /\ selectedIds = {}
  /\ selectedResult = <<>>
  /\ exportStatusFilter = "All"
  /\ exportStartDate = NoDate
  /\ exportEndDate = NoDate

\* a freshly mounted ResultsView
TableReset ==
  /\ sortConfig' = InitialSortConfig
  /\ searchTerm' = <<>>
  /\ statusFilter' = "All"
  /\ currentPage' = 1
  /\ selectedIds' = {}
  /\ selectedResult' = <<>>
  /\ exportStatusFilter' = "All"
  /\ exportStartDate' = NoDate
  /\ exportEndDate' = NoDate

\* nothing has been exported yet
NoExport == [kind |-> "none", rows |-> <<>>, message |-> "", offset |-> 0]

\* process.env.API_KEY: not set, or set
NoKey == <<>>
ApiKeys == {NoKey, <<"key">>}

\* useState initial values of AnalyticsView
AnalyticsInit ==
  /\ insights = ""
  /\ isLoadingInsights = FALSE
  /\ insightCalls = <<>>

\* the handlers of an unmounted AnalyticsView still run, their setState calls do nothing
Detached(calls) == [i \in 1..Len(calls) |-> [calls[i] EXCEPT !.mounted = FALSE]]

\* a freshly mounted AnalyticsView, with the invocations that are still in flight
AnalyticsReset(calls) ==
  /\ insights' = ""
  /\ isLoadingInsights' = FALSE
  /\ insightCalls' = calls

\* useState initial values of App, before any effect has run; empty localStorage
Init ==
  /\ phase = "boot"
  /\ view = "upload"
  /\ omrFiles = <<>>
  /\ studentResults = <<>>
  /\ totalProcessed = 0
  /\ isInitialMount = TRUE
  /\ pending = [results |-> <<>>, total |-> <<>>]
  /\ storage = [studentResults |-> NoItem, totalProcessed |-> NoItem]
  /\ files = <<>>
  /\ nextId = 1
  /\ runs = <<>>
  /\ TableInit
  /\ exported = NoExport
  /\ AnalyticsInit

\* ------------------------------------------------------- App: persistence
\* what the save effect writes
SavedStorage(results, total) ==
  [studentResults |-> <<StringifyResults(results)>>,
   totalProcessed |-> <<StringifyTotal(total)>>]

\* a save effect that writes the state of the render before the change
SaveEffectStorage_Stale(results, total) ==
  IF isInitialMount THEN storage ELSE SavedStorage(studentResults, totalProcessed)

\* the body of the save effect: its first run only clears isInitialMount
SaveEffectStorage(results, total) ==
  IF isInitialMount THEN storage ELSE SavedStorage(results, total)

\* the save effect, run after a render in which studentResults or totalProcessed changed
SaveEffect(results, total) ==
  /\ storage' = SaveEffectStorage(results, total)
  /\ isInitialMount' = FALSE

\* the load effect on mount: reads both items and queues the state updates
LoadEffect ==
  /\ phase = "boot"
  /\ pending' = [results |-> IF storage.studentResults # NoItem
                             THEN <<JSONParse(storage.studentResults[1])>> ELSE <<>>,
                 total |-> IF storage.totalProcessed # NoItem
                           THEN <<JSONParse(storage.totalProcessed[1])>> ELSE <<>>]
  /\ phase' = "loadEffectDone"
  /\ UNCHANGED <<exported, analyticsVars, view, omrFiles, studentResults, totalProcessed, isInitialMount, storage,
                 uploadVars, runs, tableVars>>

\* the save effect's run on mount, after the load effect and before the next render
SaveEffectOnMount ==
  /\ phase = "loadEffectDone"
  /\ SaveEffect(studentResults, totalProcessed)
  /\ phase' = "effectsDone"
  /\ UNCHANGED <<exported, analyticsVars, view, omrFiles, studentResults, totalProcessed, pending,
                 uploadVars, runs, tableVars>>

\* the render that applies the queued updates, and the save effect it triggers
CommitLoad ==
  /\ phase = "effectsDone"
  /\ LET results == IF pending.results # <<>> THEN pending.results[1] ELSE studentResults
         total == IF pending.total # <<>> THEN pending.total[1] ELSE totalProcessed
     IN /\ studentResults' = results
        /\ totalProcessed' = total
        /\ IF pending.results # <<>> \/ pending.total # <<>>
           THEN SaveEffect(results, total)
           ELSE UNCHANGED <<storage, isInitialMount>>
  /\ pending' = [results |-> <<>>, total |-> <<>>]
  /\ phase' = "ready"
  /\ UNCHANGED <<exported, analyticsVars, view, omrFiles, uploadVars, runs, tableVars>>

\* the page is reloaded: all in-memory state and all timers are gone, localStorage stays
Reload ==
  /\ phase = "ready"
  /\ phase' = "boot"
  /\ view' = "upload"
  /\ omrFiles' = <<>>
  /\ studentResults' = <<>>
  /\ totalProcessed' = 0
  /\ isInitialMount' = TRUE
  /\ files' = <<>>
  /\ runs' = <<>>
  /\ TableReset
  /\ AnalyticsReset(<<>>)
  /\ UNCHANGED <<pending, storage, nextId, exported>>

\* ------------------------------------------------------- App: navigation
NavViews == {"upload", "results", "analytics"}

\* every ProcessingDashboard is unmounted: its timers and their closures live on, its
\* component state (processedFiles) is dropped
Unmounted(rs) ==
  [i \in 1..Len(rs) |-> [rs[i] EXCEPT !.mounted = FALSE, !.processedFiles = <<>>]]

\* Header / mobile navigation button: isEnabled && setView(v)
Navigate(v) ==
  /\ phase = "ready"
  /\ v \in NavViews
  /\ v = "upload" \/ Len(studentResults) > 0
  /\ v # view
  /\ view' = v
  /\ files' = <<>>
  /\ runs' = Unmounted(runs)
  /\ TableReset
  /\ AnalyticsReset(Detached(insightCalls))
  /\ UNCHANGED <<exported, phase, omrFiles, studentResults, totalProcessed, isInitialMount, pending,
                 storage, nextId>>

\* ------------------------------------------------------------- UploadView
\* file.type of the files the user hands over
InputTypes == {"image/png", "text/plain"}

RECURSIVE SeqsUpTo(_, _)
SeqsUpTo(S, n) ==
  IF n = 0 THEN {<<>>}
  ELSE LET shorter == SeqsUpTo(S, n - 1)
       IN shorter \cup {Append(q, x) : q \in {t \in shorter : Len(t) = n - 1}, x \in S}

\* a filter that lets every file through
AcceptedType_Any(type) == TRUE

AcceptedType(type) == type \in ACCEPTED_TYPES

\* ids that count the files of one call
NewOmrFiles_CountedPerCall(types, firstId) ==
  LET kept == SelectSeq(types, AcceptedType)
  IN [i \in 1..Len(kept) |->
        [id |-> i, type |-> kept[i], progress |-> 0, status |-> "pending"]]

\* handleFiles: filter by type, wrap as OMRFile with a fresh id, append what is not queued yet
NewOmrFiles(types, firstId) ==
  LET kept == SelectSeq(types, AcceptedType)
  IN [i \in 1..Len(kept) |->
        [id |-> firstId + i - 1, type |-> kept[i], progress |-> 0, status |-> "pending"]]

NotQueued(prev, nf) == \A i \in 1..Len(prev) : prev[i].id # nf.id

handleFiles(types) ==
  /\ phase = "ready" /\ view = "upload"
  /\ LET fresh == NewOmrFiles(types, nextId)
         added == SelectSeq(fresh, LAMBDA nf : NotQueued(files, nf))
     IN /\ nextId + Len(fresh) - 1 <= MaxFiles
        /\ files' = files \o added
        /\ nextId' = nextId + Len(fresh)
  /\ UNCHANGED <<exported, analyticsVars, appVars, runs, tableVars>>

removeFile(id) ==
  /\ phase = "ready" /\ view = "upload"
  /\ \E i \in 1..Len(files) : files[i].id = id
  /\ files' = SelectSeq(files, LAMBDA f : f.id # id)
  /\ UNCHANGED <<exported, analyticsVars, appVars, nextId, runs, tableVars>>

clearQueue ==
  /\ phase = "ready" /\ view = "upload"
  /\ Len(files) > 0
  /\ files' = <<>>
  /\ UNCHANGED <<exported, analyticsVars, appVars, nextId, runs, tableVars>>

\* ---------------------------------------------------- ProcessingDashboard
STAGES_OK == <<"preprocessing", "detecting", "scoring", "complete">>
STAGES_ERROR == <<"preprocessing", "detecting", "error">>

\* an error path that fails one stage later
Stages_ErrorAfterScoring(isError) ==
  IF isError THEN <<"preprocessing", "detecting", "scoring", "error">> ELSE STAGES_OK

Stages(isError) == IF isError THEN STAGES_ERROR ELSE STAGES_OK

\* Math.random() * 15, a sample of its values
Increments == {0, 14}

\* the stage the closure of a run is in (stages[currentStageIndex])
StageOf(run) == Stages(run.isError)[run.currentStageIndex + 1]

\* a mounted dashboard: useState(files.map(f => ({...f, status: 'uploading'}))) and the
\* pipeline effect's call processFile(0), which draws isError and arms the first timer
NewRun(queue, isError) ==
  [files |-> [i \in 1..Len(queue) |-> [queue[i] EXCEPT !.status = "uploading"]],
   processedFiles |-> [i \in 1..Len(queue) |-> [queue[i] EXCEPT !.status = "uploading"]],
   mounted |-> TRUE,
   index |-> 0,
   isError |-> isError,
   currentStageIndex |-> 0,
   progress |-> 0,
   generatedResults |-> <<>>,
   pc |-> IF Len(queue) = 0 THEN "complete" ELSE "updateProgress",
   calls |-> 0]

LiveRuns == {r \in 1..Len(runs) : runs[r].pc # "done"}

\* "Start Processing": onProcessStart(files), then the dashboard mounts
handleProcessStart(isError) ==
  /\ phase = "ready" /\ view = "upload"
  /\ Len(files) > 0
  /\ Cardinality(LiveRuns) < MaxLiveRuns
  /\ omrFiles' = files
  /\ view' = "processing"
  /\ runs' = Append(Unmounted(runs), NewRun(files, isError))
  /\ files' = <<>>
  /\ UNCHANGED <<exported, analyticsVars, phase, studentResults, totalProcessed, isInitialMount, pending, storage,
                 nextId, tableVars>>

\* the closure variables after `progress += inc` and the stage step of updateProgress
Advanced(run, inc) ==
  LET raised == run.progress + inc
      last == Len(Stages(run.isError)) - 1
  IN IF raised >= PROGRESS_FULL
     THEN IF run.currentStageIndex < last
          THEN [run EXCEPT !.currentStageIndex = @ + 1, !.progress = 0]
          ELSE [run EXCEPT !.progress = PROGRESS_FULL]
     ELSE [run EXCEPT !.progress = raised]

\* a map that forgets to test the index
ShownFiles_EveryRow(run) ==
  IF run.mounted
  THEN [i \in 1..Len(run.processedFiles) |->
          [run.processedFiles[i] EXCEPT !.progress = run.progress, !.status = StageOf(run)]]
  ELSE run.processedFiles

\* setProcessedFiles(prev => prev.map(...)): only a mounted component keeps state
ShownFiles(run) ==
  IF run.mounted
  THEN [i \in 1..Len(run.processedFiles) |->
          IF i - 1 = run.index
          THEN [run.processedFiles[i] EXCEPT !.progress = run.progress, !.status = StageOf(run)]
          ELSE run.processedFiles[i]]
  ELSE run.processedFiles

IsTerminal(status) == status = "complete" \/ status = "error"

\* a tick that pushes a result for an errored file too
AfterUpdate_AlsoOnError(run, inc, draw) ==
  LET stepped == Advanced(run, inc)
      shown == [stepped EXCEPT !.processedFiles = ShownFiles(stepped)]
  IN IF IsTerminal(StageOf(shown))
     THEN [shown EXCEPT
             !.generatedResults =
                Append(@, generateMockResult(run.files[run.index + 1], run.index, draw)),
             !.pc = "processFile"]
     ELSE shown

\* one timer tick of updateProgress for run r
AfterUpdate(run, inc, draw) ==
  LET stepped == Advanced(run, inc)
      shown == [stepped EXCEPT !.processedFiles = ShownFiles(stepped)]
  IN IF IsTerminal(StageOf(shown))
     THEN [shown EXCEPT
             !.generatedResults =
                IF StageOf(shown) = "complete"
                THEN Append(@, generateMockResult(run.files[run.index + 1], run.index, draw))
                ELSE @,
             !.pc = "processFile"]
     ELSE shown

\* the Math.random() outcomes a tick consumes beyond inc: those of generateMockResult
\* when the tick completes the file
DrawsAt(run, inc) ==
  IF StageOf(Advanced(run, inc)) = "complete" THEN MockDraws
  ELSE {CHOOSE d \in MockDraws : TRUE}

updateProgress(r, inc, draw) ==
  /\ phase = "ready"
  /\ r \in 1..Len(runs)
  /\ runs[r].pc = "updateProgress"
  /\ draw \in DrawsAt(runs[r], inc)
  /\ runs' = [runs EXCEPT ![r] = AfterUpdate(runs[r], inc, draw)]
  /\ UNCHANGED <<exported, analyticsVars, appVars, uploadVars, tableVars>>

\* an end test that is off by one
AfterProcessFile_OffByOne(run, isError) ==
  IF run.index + 1 >= Len(run.files) - 1
  THEN [run EXCEPT !.index = @ + 1, !.pc = "complete"]
  ELSE [run EXCEPT !.index = @ + 1, !.isError = isError, !.currentStageIndex = 0,
                   !.progress = 0, !.pc = "updateProgress"]

\* the 300 ms timer: processFile(index + 1)
AfterProcessFile(run, isError) ==
  IF run.index + 1 >= Len(run.files)
  THEN [run EXCEPT !.index = @ + 1, !.pc = "complete"]
  ELSE [run EXCEPT !.index = @ + 1, !.isError = isError, !.currentStageIndex = 0,
                   !.progress = 0, !.pc = "updateProgress"]

processFile(r, isError) ==
  /\ phase = "ready"
  /\ r \in 1..Len(runs)
  /\ runs[r].pc = "processFile"
  /\ runs' = [runs EXCEPT ![r] = AfterProcessFile(runs[r], isError)]
  /\ UNCHANGED <<exported, analyticsVars, appVars, uploadVars, tableVars>>

\* --------------------------------------------------- App: result handlers
\* a completion that puts the new results first
CompletedResults_Prepend(prev, results) == results \o prev

\* handleProcessingComplete: setStudentResults(prev => [...prev, ...results])
CompletedResults(prev, results) == prev \o results

\* a counter set to the size of the last run
CompletedTotal_LastRun(prev, results) == Len(results)

\* handleProcessingComplete: setTotalProcessed(prev => prev + results.length)
CompletedTotal(prev, results) == prev + Len(results)

\* an approval that marks every stored result
ApprovedResults_All(prev, ids) ==
  [i \in 1..Len(prev) |->
     [prev[i] EXCEPT !.status = "Complete", !.confidence = APPROVED_CONFIDENCE]]

\* an approval that sends a complete result back to review
ApprovedResults_Toggle(prev, ids) ==
  [i \in 1..Len(prev) |->
     IF prev[i].id \in ids
     THEN IF prev[i].status = "Complete"
          THEN [prev[i] EXCEPT !.status = "Needs Review"]
          ELSE [prev[i] EXCEPT !.status = "Complete", !.confidence = APPROVED_CONFIDENCE]
     ELSE prev[i]]

\* an approval that leaves the confidence as it was
ApprovedResults_StatusOnly(prev, ids) ==
  [i \in 1..Len(prev) |->
     IF prev[i].id \in ids THEN [prev[i] EXCEPT !.status = "Complete"] ELSE prev[i]]

\* handleApproveResults / handleApproveResult
ApprovedResults(prev, ids) ==
  [i \in 1..Len(prev) |->
     IF prev[i].id \in ids
     THEN [prev[i] EXCEPT !.status = "Complete", !.confidence = APPROVED_CONFIDENCE]
     ELSE prev[i]]

\* a deletion with the test inverted
RemainingResults_Selected(prev, ids) == SelectSeq(prev, LAMBDA r : r.id \in ids)

\* handleDeleteResults
RemainingResults(prev, ids) == SelectSeq(prev, LAMBDA r : r.id \notin ids)

\* a run whose 1000 ms timer stays armed
Finished_Rearmed(run) == [run EXCEPT !.calls = @ + 1]

\* a run whose last timer has fired: nothing refers to its closure any more
Finished(run) ==
  [files |-> <<>>, processedFiles |-> <<>>, mounted |-> FALSE, index |-> 0,
   isError |-> FALSE, currentStageIndex |-> 0, progress |-> 0, generatedResults |-> <<>>,
   pc |-> "done", calls |-> run.calls + 1]

\* the 1000 ms timer of run r: onProcessingComplete(generatedResults)
handleProcessingComplete(r) ==
  /\ phase = "ready"
  /\ r \in 1..Len(runs)
  /\ runs[r].pc = "complete"
  /\ LET results == CompletedResults(studentResults, runs[r].generatedResults)
         total == CompletedTotal(totalProcessed, runs[r].generatedResults)
     IN /\ studentResults' = results
        /\ totalProcessed' = total
        /\ SaveEffect(results, total)
  /\ view' = "results"
  /\ runs' = [Unmounted(runs) EXCEPT ![r] = Finished(runs[r])]
  /\ files' = <<>>
  /\ IF view = "results" THEN UNCHANGED tableVars ELSE TableReset
  /\ AnalyticsReset(Detached(insightCalls))
  /\ UNCHANGED <<exported, phase, omrFiles, pending, nextId>>

\* ------------------------------------------------------------ ResultsView
SortKeys == {"studentId", "totalScore", "status", "processingDate", "confidence", "examSet"}
Directions == {"asc", "desc"}
StatusFilters == {"All", "Complete", "Needs Review"}

\* what the user types into the search box
SearchTerms == {<<>>, <<"s","t">>, <<"S","T","0","0","2">>, <<"-","1">>, <<"x">>}

\* a search that compares letter case
MatchesSearch_CaseSensitive(r, term) == Includes(r.studentId, term)

\* r => r.studentId.toLowerCase().includes(searchTerm.toLowerCase())
MatchesSearch(r, term) == Includes(ToLowerCase(r.studentId), ToLowerCase(term))

\* r => statusFilter === 'All' || r.status === statusFilter
MatchesStatus(r, filter) == filter = "All" \/ r.status = filter

\* useMemo filteredResults
FilteredOf(results, term, filter) ==
  SelectSeq(SelectSeq(results, LAMBDA r : MatchesSearch(r, term)),
            LAMBDA r : MatchesStatus(r, filter))

filteredResults == FilteredOf(studentResults, searchTerm, statusFilter)

\* aValue < bValue for the values of column key.  A Date against a string compares
\* the Date's number with NaN, which is false in both directions.
ValueLess(x, y, key) ==
  CASE key \in {"totalScore", "confidence"} -> x < y
    [] key = "studentId" -> StrLess(x, y)
    [] key \in {"status", "examSet"} -> StrLess(Chars(x), Chars(y))
    [] key = "processingDate" -> x.rep = y.rep /\ x.t < y.t

\* a comparator that never answers 0
Compare_NoTie(a, b, config) ==
  IF ValueLess(a[config.key], b[config.key], config.key)
  THEN (IF config.direction = "asc" THEN -1 ELSE 1)
  ELSE (IF config.direction = "asc" THEN 1 ELSE -1)

\* the comparator handed to Array.prototype.sort
Compare(a, b, config) ==
  IF ValueLess(a[config.key], b[config.key], config.key)
  THEN (IF config.direction = "asc" THEN -1 ELSE 1)
  ELSE IF ValueLess(b[config.key], a[config.key], config.key)
  THEN (IF config.direction = "asc" THEN 1 ELSE -1)
  ELSE 0

\* Array.prototype.sort as a stable insertion sort: x moves left past every
\* element that compares greater than it
RECURSIVE InsertSorted(_, _, _)
InsertSorted(sorted, x, config) ==
  IF sorted = <<>> THEN <<x>>
  ELSE LET n == Len(sorted) IN
       IF Compare(sorted[n], x, config) > 0
       THEN Append(InsertSorted(SubSeq(sorted, 1, n - 1), x, config), sorted[n])
       ELSE Append(sorted, x)

RECURSIVE SortBy(_, _)
SortBy(items, config) ==
  IF items = <<>> THEN <<>>
  ELSE LET n == Len(items)
       IN InsertSorted(SortBy(SubSeq(items, 1, n - 1), config), items[n], config)

\* useMemo sortedResults
sortedResults == SortBy(filteredResults, sortConfig)

\* a slice that runs one row into the next page
PageOf_Overlap(sorted, page) ==
  LET startIndex == (page - 1) * RESULTS_PER_PAGE
      stop == IF startIndex + RESULTS_PER_PAGE + 1 < Len(sorted)
              THEN startIndex + RESULTS_PER_PAGE + 1 ELSE Len(sorted)
  IN SubSeq(sorted, startIndex + 1, stop)

\* sortedResults.slice(startIndex, startIndex + RESULTS_PER_PAGE)
PageOf(sorted, page) ==
  LET startIndex == (page - 1) * RESULTS_PER_PAGE
      stop == IF startIndex + RESULTS_PER_PAGE < Len(sorted)
              THEN startIndex + RESULTS_PER_PAGE ELSE Len(sorted)
  IN SubSeq(sorted, startIndex + 1, stop)

paginatedResults == PageOf(sortedResults, currentPage)

\* Math.ceil(sortedResults.length / RESULTS_PER_PAGE)
totalPages == (Len(sortedResults) + RESULTS_PER_PAGE - 1) \div RESULTS_PER_PAGE

IdsOf(rows) == {rows[i].id : i \in 1..Len(rows)}

TableOpen == phase = "ready" /\ view = "results" /\ selectedResult = <<>>

\* a toggle that does not look at the key
NextSortConfig_AnyKey(config, key) ==
  [key |-> key, direction |-> IF config.direction = "asc" THEN "desc" ELSE "asc"]

\* requestSort(key)
NextSortConfig(config, key) ==
  [key |-> key,
   direction |-> IF config.key = key /\ config.direction = "asc" THEN "desc" ELSE "asc"]

requestSort(key) ==
  /\ TableOpen
  /\ key \in SortKeys
  /\ sortConfig' = NextSortConfig(sortConfig, key)
  /\ UNCHANGED <<exported, analyticsVars, exportFilters, appVars, uploadVars, runs, searchTerm, statusFilter, currentPage,
                 selectedIds, selectedResult>>

\* an effect that does not depend on currentPage
SelectionAfter_NotOnPage(term, filter, page) ==
  IF term # searchTerm \/ filter # statusFilter THEN {} ELSE selectedIds

\* the effect on [searchTerm, statusFilter, currentPage]: setSelectedIds(new Set())
SelectionAfter(term, filter, page) ==
  IF term # searchTerm \/ filter # statusFilter \/ page # currentPage THEN {} ELSE selectedIds

\* search box onChange
setSearchTerm(term) ==
  /\ TableOpen
  /\ term \in SearchTerms /\ term # searchTerm
  /\ searchTerm' = term
  /\ currentPage' = 1
  /\ selectedIds' = SelectionAfter(term, statusFilter, 1)
  /\ UNCHANGED <<exported, analyticsVars, exportFilters, appVars, uploadVars, runs, sortConfig, statusFilter, selectedResult>>

\* status filter buttons
setStatusFilter(filter) ==
  /\ TableOpen
  /\ filter \in StatusFilters
  /\ filter # statusFilter \/ currentPage # 1
  /\ statusFilter' = filter
  /\ currentPage' = 1
  /\ selectedIds' = SelectionAfter(searchTerm, filter, 1)
  /\ UNCHANGED <<exported, analyticsVars, exportFilters, appVars, uploadVars, runs, sortConfig, searchTerm, selectedResult>>

\* previous-page button: disabled on page 1
prevPage ==
  /\ TableOpen
  /\ currentPage # 1
  /\ LET page == IF currentPage - 1 > 1 THEN currentPage - 1 ELSE 1
     IN /\ currentPage' = page
        /\ selectedIds' = SelectionAfter(searchTerm, statusFilter, page)
  /\ UNCHANGED <<exported, analyticsVars, exportFilters, appVars, uploadVars, runs, sortConfig, searchTerm, statusFilter,
                 selectedResult>>

\* next-page button: disabled on the last page and when there is no page
nextPage ==
  /\ TableOpen
  /\ ~(currentPage = totalPages \/ totalPages = 0)
  /\ LET page == IF currentPage + 1 < totalPages THEN currentPage + 1 ELSE totalPages
     IN /\ currentPage' = page
        /\ selectedIds' = SelectionAfter(searchTerm, statusFilter, page)
  /\ UNCHANGED <<exported, analyticsVars, exportFilters, appVars, uploadVars, runs, sortConfig, searchTerm, statusFilter,
                 selectedResult>>

\* row checkbox
handleSelect(id) ==
  /\ TableOpen
  /\ id \in IdsOf(paginatedResults)
  /\ selectedIds' = IF id \in selectedIds THEN selectedIds \ {id} ELSE selectedIds \cup {id}
  /\ UNCHANGED <<exported, analyticsVars, exportFilters, appVars, uploadVars, runs, sortConfig, searchTerm, statusFilter,
                 currentPage, selectedResult>>

\* a test that leaves out the length of the page
isAllSelectedOnPage_AnyLength ==
  IdsOf(paginatedResults) \subseteq selectedIds

\* paginatedResults.length > 0 && paginatedResults.every(r => selectedIds.has(r.id))
isAllSelectedOnPage ==
  Len(paginatedResults) > 0 /\ IdsOf(paginatedResults) \subseteq selectedIds

\* header checkbox: the event carries the negation of what the box shows
handleSelectAll ==
  /\ TableOpen
  /\ selectedIds' = IF ~isAllSelectedOnPage THEN IdsOf(paginatedResults) ELSE {}
  /\ selectedIds' # selectedIds
  /\ UNCHANGED <<exported, analyticsVars, exportFilters, appVars, uploadVars, runs, sortConfig, searchTerm, statusFilter,
                 currentPage, selectedResult>>

\* a click on a row's cell opens the review modal on that row
openModal(i) ==
  /\ TableOpen
  /\ i \in 1..Len(paginatedResults)
  /\ selectedResult' = <<paginatedResults[i]>>
  /\ UNCHANGED <<exported, analyticsVars, exportFilters, appVars, uploadVars, runs, sortConfig, searchTerm, statusFilter,
                 currentPage, selectedIds>>

closeModal ==
  /\ phase = "ready" /\ view = "results" /\ selectedResult # <<>>
  /\ selectedResult' = <<>>
  /\ UNCHANGED <<exported, analyticsVars, exportFilters, appVars, uploadVars, runs, sortConfig, searchTerm, statusFilter,
                 currentPage, selectedIds>>

\* "Approve Result" in the modal: onApprove(result.id); onClose()
approveInModal ==
  /\ phase = "ready" /\ view = "results" /\ selectedResult # <<>>
  /\ selectedResult[1].status = "Needs Review"
  /\ LET results == ApprovedResults(studentResults, {selectedResult[1].id})
     IN /\ studentResults' = results
        /\ SaveEffect(results, totalProcessed)
  /\ selectedResult' = <<>>
  /\ UNCHANGED <<exported, analyticsVars, exportFilters, phase, view, omrFiles, totalProcessed, pending, uploadVars, runs,
                 sortConfig, searchTerm, statusFilter, currentPage, selectedIds>>

\* batch "Approve": onApproveResults(Array.from(selectedIds)); setSelectedIds(new Set())
approveSelected ==
  /\ TableOpen
  /\ selectedIds # {}
  /\ LET results == ApprovedResults(studentResults, selectedIds)
     IN /\ studentResults' = results
        /\ SaveEffect(results, totalProcessed)
  /\ selectedIds' = {}
  /\ UNCHANGED <<exported, analyticsVars, exportFilters, phase, view, omrFiles, totalProcessed, pending, uploadVars, runs,
                 sortConfig, searchTerm, statusFilter, currentPage, selectedResult>>

\* batch "Delete" with the answer of window.confirm
deleteSelected(confirmed) ==
  /\ TableOpen
  /\ selectedIds # {}
  /\ IF confirmed
     THEN LET results == RemainingResults(studentResults, selectedIds)
          IN /\ studentResults' = results
             /\ SaveEffect(results, totalProcessed)
             /\ selectedIds' = {}
     ELSE UNCHANGED <<studentResults, storage, isInitialMount, selectedIds>>
  /\ UNCHANGED <<exported, analyticsVars, exportFilters, phase, view, omrFiles, totalProcessed, pending, uploadVars, runs,
                 sortConfig, searchTerm, statusFilter, currentPage, selectedResult>>

\* ------------------------------------------------------ ResultsView: export
\* the time zone of the browser, in hours east of UTC: local time = UTC + offset
TimeZoneOffsets == {-5, 0, 5}

\* the days a date input may hold, counted from the epoch of NOW: yesterday, today
ExportDays == {NOW \div HOURS_PER_DAY - 1, NOW \div HOURS_PER_DAY}

ExportDates == {NoDate} \cup { <<d>> : d \in ExportDays }

\* new Date(res.processingDate): a Date and its ISO string give the same instant
DateOf(d) == d.t

\* resultDate.setHours(0, 0, 0, 0): midnight of the local day, as an instant
LocalMidnight(t, offset) ==
  ((t + offset) \div HOURS_PER_DAY) * HOURS_PER_DAY - offset

\* new Date('YYYY-MM-DD'): the date-only form is midnight UTC
DateInputInstant(day) == day * HOURS_PER_DAY

\* the filter callback of exportToCSV
ExportKeeps(res, status, start, end, offset) ==
  /\ ~(status # "All" /\ res.status # status)
  /\ LET resultDate == LocalMidnight(DateOf(res.processingDate), offset)
     IN /\ ~(start # NoDate /\ resultDate < DateInputInstant(start[1]))
        /\ ~(end # NoDate /\ resultDate > DateInputInstant(end[1]))

\* an export that starts from the rows the table shows
DataToExport_Filtered(results, status, start, end, offset) ==
  SelectSeq(filteredResults, LAMBDA res : ExportKeeps(res, status, start, end, offset))

\* dataToExport = results.filter(...)
DataToExport(results, status, start, end, offset) ==
  SelectSeq(results, LAMBDA res : ExportKeeps(res, status, start, end, offset))

\* one line of the CSV; toISOString().split('T')[0] is the UTC day
CsvRow(res) ==
  [studentId |-> res.studentId,
   processingDate |-> DateOf(res.processingDate) \div HOURS_PER_DAY,
   totalScore |-> res.totalScore,
   status |-> res.status,
   confidence |-> res.confidence,
   examSet |-> res.examSet,
   sectionScores |-> res.sectionScores]

CsvRows(data) == [i \in 1..Len(data) |-> CsvRow(data[i])]

NO_MATCH_MESSAGE == "No results match the selected export filters."

\* an export that downloads a file with no rows
ExportOutcome_EmptyFile(data, offset) ==
  [kind |-> "file", rows |-> CsvRows(data), message |-> "", offset |-> offset]

\* what a click on "Export Filtered Results" produces: an alert, or a download
ExportOutcome(data, offset) ==
  IF Len(data) = 0
  THEN [kind |-> "alert", rows |-> <<>>, message |-> NO_MATCH_MESSAGE, offset |-> offset]
  ELSE [kind |-> "file", rows |-> CsvRows(data), message |-> "", offset |-> offset]

\* exportToCSV, in a browser whose time zone is offset
exportToCSV(offset) ==
  /\ TableOpen
  /\ offset \in TimeZoneOffsets
  /\ exported' = ExportOutcome(DataToExport(studentResults, exportStatusFilter,
                                            exportStartDate, exportEndDate, offset), offset)
  /\ UNCHANGED <<appVars, uploadVars, runs, tableVars, analyticsVars>>

\* export status buttons
setExportStatusFilter(status) ==
  /\ TableOpen
  /\ status \in StatusFilters /\ status # exportStatusFilter
  /\ exportStatusFilter' = status
  /\ UNCHANGED <<appVars, uploadVars, runs, sortConfig, searchTerm, statusFilter,
                 currentPage, selectedIds, selectedResult, exportStartDate, exportEndDate,
                 exported, analyticsVars>>

\* start date input
setExportStartDate(date) ==
  /\ TableOpen
  /\ date \in ExportDates /\ date # exportStartDate
  /\ exportStartDate' = date
  /\ UNCHANGED <<appVars, uploadVars, runs, sortConfig, searchTerm, statusFilter,
                 currentPage, selectedIds, selectedResult, exportStatusFilter, exportEndDate,
                 exported, analyticsVars>>

\* end date input
setExportEndDate(date) ==
  /\ TableOpen
  /\ date \in ExportDates /\ date # exportEndDate
  /\ exportEndDate' = date
  /\ UNCHANGED <<appVars, uploadVars, runs, sortConfig, searchTerm, statusFilter,
                 currentPage, selectedIds, selectedResult, exportStatusFilter, exportStartDate,
                 exported, analyticsVars>>

\* ------------------------------------------- geminiService and AnalyticsView
NO_KEY_MESSAGE == "API Key not configured. Please set the API_KEY environment variable."

ERROR_MESSAGE ==
  "An error occurred while generating AI insights. Please check the console for details."

\* what ai.models.generateContent may come back with: a response and its text, or
\* a rejection
Responses == {[ok |-> TRUE, text |-> "analysis"], [ok |-> TRUE, text |-> ""], [ok |-> FALSE, text |-> ""]}

\* generateAnalyticsInsights(results) up to its first await, or to its return when
\* there is no key: the requests it has issued, and the state of the promise it returned
StartInsights(key) ==
  IF key = NoKey
  THEN [key |-> key, mounted |-> TRUE, pc |-> "returned", requests |-> 0,
        response |-> "none", settled |-> "resolved", value |-> NO_KEY_MESSAGE]
  ELSE [key |-> key, mounted |-> TRUE, pc |-> "awaiting", requests |-> 1,
        response |-> "none", settled |-> "pending", value |-> ""]

\* a catch block that asks again
AfterResponse_Retry(call, response) ==
  IF response.ok
  THEN [call EXCEPT !.pc = "returned", !.response = "ok", !.settled = "resolved",
                    !.value = response.text]
  ELSE [call EXCEPT !.requests = @ + 1, !.response = "error"]

\* a function without the catch block
AfterResponse_Rethrow(call, response) ==
  IF response.ok
  THEN [call EXCEPT !.pc = "returned", !.response = "ok", !.settled = "resolved",
                    !.value = response.text]
  ELSE [call EXCEPT !.pc = "returned", !.response = "error", !.settled = "rejected"]

\* the rest of generateAnalyticsInsights: try { return response.text } catch { return ... }
AfterResponse(call, response) ==
  IF response.ok
  THEN [call EXCEPT !.pc = "returned", !.response = "ok", !.settled = "resolved",
                    !.value = response.text]
  ELSE [call EXCEPT !.pc = "returned", !.response = "error", !.settled = "resolved",
                    !.value = ERROR_MESSAGE]

\* the "Generate Insights" button, rendered when nothing is loading or shown:
\* handleGenerateInsights up to its await.  API_KEY is the key the page was built
\* with, the same for every invocation since the page was loaded.
handleGenerateInsights(API_KEY) ==
  /\ phase = "ready" /\ view = "analytics"
  /\ ~isLoadingInsights /\ insights = ""
  /\ Len(insightCalls) < MaxInsightCalls
  /\ API_KEY \in ApiKeys
  /\ \A c \in 1..Len(insightCalls) : insightCalls[c].key = API_KEY
  /\ isLoadingInsights' = TRUE
  /\ insights' = ""
  /\ insightCalls' = Append(insightCalls, StartInsights(API_KEY))
  /\ UNCHANGED <<appVars, uploadVars, runs, tableVars, exported>>

\* the external API answers the request of invocation c
requestSettles(c, response) ==
  /\ c \in 1..Len(insightCalls)
  /\ insightCalls[c].pc = "awaiting"
  /\ response \in Responses
  /\ insightCalls' = [insightCalls EXCEPT ![c] = AfterResponse(@, response)]
  /\ UNCHANGED <<appVars, uploadVars, runs, tableVars, exported, insights,
                 isLoadingInsights>>

\* handleGenerateInsights after its await: setInsights(result); setIsLoadingInsights(false).
\* A rejected promise throws out of the handler; an unmounted component keeps no state.
resumeInsights(c) ==
  /\ c \in 1..Len(insightCalls)
  /\ insightCalls[c].pc = "returned"
  /\ insightCalls' = [insightCalls EXCEPT ![c].pc = "done"]
  /\ IF insightCalls[c].mounted /\ insightCalls[c].settled = "resolved"
     THEN /\ insights' = insightCalls[c].value
          /\ isLoadingInsights' = FALSE
     ELSE UNCHANGED <<insights, isLoadingInsights>>
  /\ UNCHANGED <<appVars, uploadVars, runs, tableVars, exported>>

\* AnalyticsView.  A JavaScript number that is the result of a division is kept as
\* the pair of its operands; a zero divisor stands for the NaN or Infinity the
\* division would give.
Quotient(a, b) == [num |-> a, den |-> b]

\* results.reduce((sum, r) => sum + r.totalScore, 0)
totalScoreSum(results) ==
  SumOver([i \in 1..Len(results) |-> results[i].totalScore], 1..Len(results))

\* a pass mark that has to be exceeded
passedCount_Above(results) ==
  Cardinality({i \in 1..Len(results) : results[i].totalScore > PASS_MARK})

\* results.filter(r => r.totalScore >= 50).length
passedCount(results) ==
  Cardinality({i \in 1..Len(results) : results[i].totalScore >= PASS_MARK})

\* the useMemo of AnalyticsView over its prop results: the two headline figures
\* and the section averages (the question difficulty chart is left out)
AnalyticsData(results) ==
  IF Len(results) = 0
  THEN [avgScore |-> Quotient(0, 1), sectionAvgs |-> <<>>, passRate |-> Quotient(0, 1)]
  ELSE LET totalStudents == Len(results) IN
       [avgScore |-> Quotient(totalScoreSum(results), totalStudents),
        sectionAvgs |->
          [s \in 1..Len(SECTIONS) |->
             Quotient(SumOver([i \in 1..Len(results) |-> results[i].sectionScores[s]],
                              1..Len(results)),
                      totalStudents)],
        passRate |-> Quotient(passedCount(results) * PERCENT, totalStudents)]

\* what the analytics view shows of the stored results
analyticsData == AnalyticsData(studentResults)

\* ---------------------------------------------------------- specification
MountStep == LoadEffect \/ SaveEffectOnMount \/ CommitLoad

UploadStep ==
  \/ \E types \in SeqsUpTo(InputTypes, MaxBatch) : handleFiles(types)
  \/ \E id \in 1..MaxFiles : removeFile(id)
  \/ clearQueue
  \/ \E isError \in BOOLEAN : handleProcessStart(isError)

PipelineStep ==
  \/ \E r \in 1..Len(runs), inc \in Increments, draw \in MockDraws : updateProgress(r, inc, draw)
  \/ \E r \in 1..Len(runs), isError \in BOOLEAN : processFile(r, isError)
  \/ \E r \in 1..Len(runs) : handleProcessingComplete(r)

ReviewStep ==
  \/ \E id \in 1..MaxFiles : handleSelect(id)
  \/ \E i \in 1..MaxFiles : openModal(i)
  \/ closeModal
  \/ approveInModal
  \/ approveSelected
  \/ \E confirmed \in BOOLEAN : deleteSelected(confirmed)

Next ==
  \/ MountStep
  \/ Reload
  \/ \E v \in NavViews : Navigate(v)
  \/ UploadStep
  \/ PipelineStep
  \/ ReviewStep

Spec == Init /\ [][Next]_vars

\* The App with the review table's sort control as well.
SortStep == \E key \in SortKeys : requestSort(key)

ReviewSpec == Init /\ [][Next \/ SortStep]_vars

\* ---------------------------------------------- the review table on its own
\* The stored lists the table is opened on: results of earlier sessions, which the
\* load effect brought back from localStorage, followed by results of this session's
\* runs.  Row i is the result of the file with id i, which was at position idx of its
\* queue.
RowChoices == [draw : MockDraws, idx : 0..(MaxRows - 1), loaded : BOOLEAN]

RowOf(i, c) ==
  LET r == generateMockResult([id |-> i], c.idx, c.draw)
  IN IF c.loaded THEN JSONParse(StringifyResults(<<r>>))[1] ELSE r

TableLists ==
  UNION { { [i \in 1..n |-> RowOf(i, cs[i])] :
              cs \in { f \in [1..n -> RowChoices] :
                         /\ \A i \in 1..n : f[i].idx < i
                         /\ \A i \in 1..(n - 1) : f[i + 1].loaded => f[i].loaded } }
          : n \in 0..MaxRows }

TableSpecInit ==
  /\ phase = "ready"
  /\ view = "results"
  /\ omrFiles = <<>>
  /\ studentResults \in TableLists
  /\ totalProcessed = Len(studentResults)
  /\ isInitialMount = FALSE
  /\ pending = [results |-> <<>>, total |-> <<>>]
  /\ storage = SavedStorage(studentResults, totalProcessed)
  /\ files = <<>>
  /\ nextId = Len(studentResults) + 1
  /\ runs = <<>>
  /\ TableInit
  /\ exported = NoExport
  /\ AnalyticsInit

TableNext ==
  \/ \E key \in SortKeys : requestSort(key)
  \/ \E term \in SearchTerms : setSearchTerm(term)
  \/ \E filter \in StatusFilters : setStatusFilter(filter)

TableSpec == TableSpecInit /\ [][TableNext]_vars

\* ------------------------------------------- the review table over several pages
\* the draw of generateMockResult with this randomDaysAgo
DrawWith(daysAgo) == CHOOSE d \in MockDraws : d.daysAgo = daysAgo

\* Stored lists long enough for three pages: the results of one run over n files,
\* every k-th of them drawn with the lower confidence and score.
PageLists ==
  { [i \in 1..n |->
       RowOf(i, [draw |-> DrawWith(IF i % k = 0 THEN 1 ELSE 0), idx |-> i - 1,
                 loaded |-> FALSE])]
      : n \in 0..MaxPageRows, k \in {2, 3} }

PageSpecInit ==
  /\ phase = "ready"
  /\ view = "results"
  /\ omrFiles = <<>>
  /\ studentResults \in PageLists
  /\ totalProcessed = Len(studentResults)
  /\ isInitialMount = FALSE
  /\ pending = [results |-> <<>>, total |-> <<>>]
  /\ storage = SavedStorage(studentResults, totalProcessed)
  /\ files = <<>>
  /\ nextId = Len(studentResults) + 1
  /\ runs = <<>>
  /\ TableInit
  /\ exported = NoExport
  /\ AnalyticsInit

PageNext ==
  \/ prevPage
  \/ nextPage
  \/ \E key \in {"studentId", "totalScore"} : requestSort(key)
  \/ \E filter \in StatusFilters : setStatusFilter(filter)
  \/ handleSelectAll

PageSpec == PageSpecInit /\ [][PageNext]_vars

\* ------------------------------------- the review table with its selection
\* Stored lists of one page and of a little more than one page, as PageLists
SelectLists ==
  { [i \in 1..n |->
       RowOf(i, [draw |-> DrawWith(IF i % k = 0 THEN 1 ELSE 0), idx |-> i - 1,
                 loaded |-> FALSE])]
      : n \in {2, MaxSelectRows}, k \in {2, 3} }

SelectSpecInit ==
  /\ phase = "ready"
  /\ view = "results"
  /\ omrFiles = <<>>
  /\ studentResults \in SelectLists
  /\ totalProcessed = Len(studentResults)
  /\ isInitialMount = FALSE
  /\ pending = [results |-> <<>>, total |-> <<>>]
  /\ storage = SavedStorage(studentResults, totalProcessed)
  /\ files = <<>>
  /\ nextId = Len(studentResults) + 1
  /\ runs = <<>>
  /\ TableInit
  /\ exported = NoExport
  /\ AnalyticsInit

\* rows are picked one by one on the first and on the second page, and all at once
SelectNext ==
  \/ prevPage
  \/ nextPage
  \/ requestSort("totalScore")
  \/ \E term \in {<<>>, <<"S","T","0","0","2">>} : setSearchTerm(term)
  \/ \E filter \in {"All", "Needs Review"} : setStatusFilter(filter)
  \/ \E id \in {2, MaxSelectRows} : handleSelect(id)
  \/ handleSelectAll
  \/ openModal(1)
  \/ closeModal
  \/ approveInModal
  \/ approveSelected
  \/ \E confirmed \in BOOLEAN : deleteSelected(confirmed)

SelectSpec == SelectSpecInit /\ [][SelectNext]_vars

\* ------------------------------------------------- the review table's export
\* Stored lists of up to MaxExportRows results, all of them loaded from localStorage
\* or all of them produced in this session.
ExportLists ==
  UNION { { [i \in 1..n |-> RowOf(i, [draw |-> ds[i], idx |-> i - 1, loaded |-> l])] :
              ds \in [1..n -> MockDraws], l \in BOOLEAN }
          : n \in 0..MaxExportRows }

ExportSpecInit ==
  /\ phase = "ready"
  /\ view = "results"
  /\ omrFiles = <<>>
  /\ studentResults \in ExportLists
  /\ totalProcessed = Len(studentResults)
  /\ isInitialMount = FALSE
  /\ pending = [results |-> <<>>, total |-> <<>>]
  /\ storage = SavedStorage(studentResults, totalProcessed)
  /\ files = <<>>
  /\ nextId = Len(studentResults) + 1
  /\ runs = <<>>
  /\ TableInit
  /\ exported = NoExport
  /\ AnalyticsInit

ExportNext ==
  \/ \E offset \in TimeZoneOffsets : exportToCSV(offset)
  \/ \E status \in StatusFilters : setExportStatusFilter(status)
  \/ \E date \in ExportDates : setExportStartDate(date)
  \/ \E date \in ExportDates : setExportEndDate(date)
  \/ \E filter \in StatusFilters : setStatusFilter(filter)
  \/ \E term \in {<<>>, <<"-","1">>} : setSearchTerm(term)
  \/ requestSort("processingDate")
  \/ handleSelectAll

ExportSpec == ExportSpecInit /\ [][ExportNext]_vars

\* ---------------------------------------------------- the analytics view
\* The App with the results of one processed file stored.
InsightsSpecInit ==
  /\ phase = "ready"
  /\ view = "results"
  /\ omrFiles = <<>>
  /\ studentResults \in {l \in ExportLists : Len(l) = 1}
  /\ totalProcessed = Len(studentResults)
  /\ isInitialMount = FALSE
  /\ pending = [results |-> <<>>, total |-> <<>>]
  /\ storage = SavedStorage(studentResults, totalProcessed)
  /\ files = <<>>
  /\ nextId = Len(studentResults) + 1
  /\ runs = <<>>
  /\ TableInit
  /\ exported = NoExport
  /\ AnalyticsInit

InsightsNext ==
  \/ \E v \in NavViews : Navigate(v)
  \/ \E key \in ApiKeys : handleGenerateInsights(key)
  \/ \E c \in 1..MaxInsightCalls, response \in Responses : requestSettles(c, response)
  \/ \E c \in 1..MaxInsightCalls : resumeInsights(c)

\* The external API answers every request, and the handler is resumed when the
\* promise it awaits has settled.
InsightsFairness ==
  \A c \in 1..MaxInsightCalls :
    /\ WF_vars(\E response \in Responses : requestSettles(c, response))
    /\ WF_vars(resumeInsights(c))

InsightsSpec == InsightsSpecInit /\ [][InsightsNext]_vars /\ InsightsFairness

\* ------------------------------------------------------ generated results
\* the outcomes of the fifty draws of isCorrect the model follows
CorrectSets ==
  { {}, AllQuestions, {q \in AllQuestions : q % 2 = 1}, SectionQuestions(1),
    1..(NUM_QUESTIONS \div 2), AllQuestions \ {NUM_QUESTIONS} }

\* draws of generateMockResult with these outcomes
ScoredDraws ==
  [suffix : {<<"1","0","0">>}, correct : CorrectSets, conf : {80, 89, 90, 99}, daysAgo : {0}]

\* Stored lists of up to MaxScoredRows results of one run, as produced or as loaded.
ScoredLists ==
  UNION { { [i \in 1..n |-> RowOf(i, [draw |-> ds[i], idx |-> i - 1, loaded |-> l])] :
              ds \in [1..n -> ScoredDraws], l \in BOOLEAN }
          : n \in 1..MaxScoredRows }

ScoredSpecInit ==
  /\ phase = "ready"
  /\ view = "results"
  /\ omrFiles = <<>>
  /\ studentResults \in ScoredLists
  /\ totalProcessed = Len(studentResults)
  /\ isInitialMount = FALSE
  /\ pending = [results |-> <<>>, total |-> <<>>]
  /\ storage = SavedStorage(studentResults, totalProcessed)
  /\ files = <<>>
  /\ nextId = Len(studentResults) + 1
  /\ runs = <<>>
  /\ TableInit
  /\ exported = NoExport
  /\ AnalyticsInit

\* the results are reviewed, and looked at in the analytics view
ScoredNext ==
  \/ ReviewStep
  \/ \E v \in {"results", "analytics"} : Navigate(v)

ScoredSpec == ScoredSpecInit /\ [][ScoredNext]_vars

\* Timers fire: every pending timer of a run eventually runs its callback, and
\* Math.random() does not return 0 for ever.
TimerFairness ==
  \A r \in 1..MaxFiles :
    /\ WF_vars(\E inc \in Increments \ {0}, draw \in MockDraws : updateProgress(r, inc, draw))
    /\ WF_vars(\E isError \in BOOLEAN : processFile(r, isError))
    /\ WF_vars(handleProcessingComplete(r))

FairSpec == Init /\ [][Next]_vars /\ TimerFairness

C2_RoundTrip ==
  (phase = "ready" /\ storage.studentResults # NoItem /\ storage.totalProcessed # NoItem)
    => /\ JSONParse(storage.studentResults[1]) = studentResults
       /\ JSONParse(storage.totalProcessed[1]) = totalProcessed

\* C2, its second half: nothing is written to localStorage while the App mounts
C2_NoWriteBeforeLoad == [][phase # "ready" => storage' = storage]_vars

\* the statuses a mounted dashboard shows, in queue order
StatusesOf(run) == [i \in 1..Len(run.processedFiles) |-> run.processedFiles[i].status]

ActiveStatuses == {"preprocessing", "detecting", "scoring"}

MountedRuns == {r \in 1..Len(runs) : runs[r].mounted}

\* C3: in a processing run at most one file is in an active stage (preprocessing,
\* detecting, scoring); every file before it in the queue is complete or error and
\* every file after it still has the initial status 'uploading'.
C3_OneAtATime ==
  \A r \in MountedRuns :
    LET st == StatusesOf(runs[r])
        active == {i \in 1..Len(st) : st[i] \in ActiveStatuses}
    IN /\ Cardinality(active) <= 1
       /\ \A i \in active :
            /\ \A j \in 1..(i - 1) : IsTerminal(st[j])
            /\ \A j \in (i + 1)..Len(st) : st[j] = "uploading"

\* the second file of a queue is in an active stage
C3_Witness ==
  \E r \in MountedRuns :
    /\ Len(runs[r].processedFiles) = 2
    /\ runs[r].processedFiles[1].status = "error"
    /\ runs[r].processedFiles[2].status = "detecting"

StatusMoves ==
  { <<"uploading", "preprocessing">>, <<"preprocessing", "detecting">>,
    <<"detecting", "scoring">>, <<"scoring", "complete">>, <<"detecting", "error">> }

\* C4: a file's status only moves uploading -> preprocessing -> detecting -> scoring ->
\* complete or uploading -> preprocessing -> detecting -> error, one stage at a time;
\* complete and error are never left.
C4_StatusMoves ==
  [][ \A r \in MountedRuns :
        (r <= Len(runs') /\ runs'[r].mounted) =>
          \A i \in 1..Len(runs[r].processedFiles) :
            \/ runs'[r].processedFiles[i].status = runs[r].processedFiles[i].status
            \/ <<runs[r].processedFiles[i].status, runs'[r].processedFiles[i].status>>
                 \in StatusMoves ]_vars

\* one queue has seen both paths to their ends
C4_Witness ==
  \E r \in MountedRuns :
    /\ Len(runs[r].processedFiles) = 2
    /\ runs[r].processedFiles[1].status = "complete"
    /\ runs[r].processedFiles[2].status = "error"

\* C5: with timers firing and increments positive infinitely often, every run that
\* has started gets its completion callback called (unless the page is reloaded
\* first); the callback is called at most once per run, and only after processFile
\* has gone through the whole queue, every file shown complete or error.
C5_RunsComplete ==
  /\ \A r \in 1..MaxFiles : (r \in LiveRuns) ~> (r \notin LiveRuns)
  /\ [](\A r \in 1..Len(runs) :
          /\ runs[r].calls <= 1
          /\ runs[r].pc = "done" <=> runs[r].calls = 1
          /\ runs[r].pc = "complete" =>
               /\ runs[r].index = Len(runs[r].files)
               /\ runs[r].mounted =>
                    \A i \in 1..Len(runs[r].processedFiles) :
                       IsTerminal(runs[r].processedFiles[i].status))

\* a run over two files has called back
C5_Witness ==
  /\ omrFiles # <<>> /\ Len(omrFiles) = 2
  /\ \E r \in 1..Len(runs) : runs[r].pc = "done" /\ runs[r].calls = 1
  /\ totalProcessed = 1

\* the ids of the rows of a list, in order
IdSeq(rows) == [i \in 1..Len(rows) |-> rows[i].id]

\* C6: the list a run hands to the completion callback holds exactly one result for
\* each file shown complete and none for a file shown error, in queue order, each
\* result carrying its file's id.
C6_ResultsMatchFiles ==
  \A r \in MountedRuns :
    runs[r].pc = "complete" =>
      IdSeq(runs[r].generatedResults)
        = IdSeq(SelectSeq(runs[r].processedFiles, LAMBDA f : f.status = "complete"))

\* a queue with an errored and a completed file is about to call back
C6_Witness ==
  \E r \in MountedRuns :
    /\ runs[r].pc = "complete"
    /\ StatusesOf(runs[r]) = <<"error", "complete">>
    /\ Len(runs[r].generatedResults) = 1

\* C7: the completion callback appends the run's results after the stored ones, which
\* stay as they are and in their order, and switches the view to 'results'.
C7_CompletionAppends ==
  [][ \A r \in 1..Len(runs) :
        (runs[r].pc = "complete" /\ r <= Len(runs') /\ runs'[r].pc = "done") =>
          /\ Len(studentResults') = Len(studentResults) + Len(runs[r].generatedResults)
          /\ SubSeq(studentResults', 1, Len(studentResults)) = studentResults
          /\ SubSeq(studentResults', Len(studentResults) + 1, Len(studentResults'))
               = runs[r].generatedResults
          /\ view' = "results" ]_vars

\* a second run has appended its result to the first run's
C7_Witness ==
  /\ Len(runs) = 2 /\ runs[2].pc = "done"
  /\ view = "results"
  /\ Len(studentResults) = 2

\* s contains term, letter case aside
ContainsIgnoringCase(s, term) ==
  \E off \in 0..(Len(s) - Len(term)) :
    \A k \in 1..Len(term) : LowerChar(s[off + k]) = LowerChar(term[k])

\* the stored results the claim C8 says the table works on
RowsWanted ==
  SelectSeq(studentResults,
            LAMBDA r : /\ ContainsIgnoringCase(r.studentId, searchTerm)
                       /\ (statusFilter = "All" \/ r.status = statusFilter))

\* C8: the rows the table works on are exactly the stored results whose studentId
\* contains the search term, letter case aside, and whose status is the status filter
\* (any status under 'All'); an empty search term excludes nothing.
C8_FilteredRows ==
  /\ filteredResults = RowsWanted
  /\ IdsOf(sortedResults) = IdsOf(RowsWanted)
  /\ searchTerm = <<>> =>
       filteredResults
         = SelectSeq(studentResults, LAMBDA r : statusFilter = "All" \/ r.status = statusFilter)

\* an upper-case search term and a status filter leave one of three rows
C8_Witness ==
  /\ searchTerm = <<"S","T","0","0","2">>
  /\ statusFilter = "Needs Review"
  /\ Len(studentResults) = 3
  /\ Len(filteredResults) = 1

\* the columns the sort state holds, first sort column first
SortColumns == <<sortConfig.key>>

\* a <= b in column key, dates by their instant
KeyLeq(a, b, key) ==
  CASE key \in {"totalScore", "confidence"} -> a[key] <= b[key]
    [] key = "studentId" -> ~StrLess(b[key], a[key])
    [] key \in {"status", "examSet"} -> ~StrLess(Chars(b[key]), Chars(a[key]))
    [] key = "processingDate" -> a[key].t <= b[key].t

\* rows a, b are in the order the sort direction asks for in column key
InOrder(a, b, key) ==
  IF sortConfig.direction = "asc" THEN KeyLeq(a, b, key) ELSE KeyLeq(b, a, key)

\* C9 as stated: the sort state holds further columns, and neighbouring rows tied on
\* the first sort column (and different in some other column) are ordered by one of
\* the further columns.
C9_MultiColumn ==
  \A i \in 1..(Len(sortedResults) - 1) :
    LET a == sortedResults[i]
        b == sortedResults[i + 1]
    IN (a[SortColumns[1]] = b[SortColumns[1]]
          /\ \E k \in SortKeys \ {SortColumns[1]} : a[k] # b[k])
       => \E j \in 2..Len(SortColumns) :
            /\ a[SortColumns[j]] # b[SortColumns[j]]
            /\ InOrder(a, b, SortColumns[j])

\* the position of the row with this id in the stored list
PositionOf(id) == CHOOSE i \in 1..Len(studentResults) : studentResults[i].id = id

\* C9 as amended: the sort state holds exactly one column and one direction, and rows
\* tied on that column are in the order in which they are stored.
C9_SingleColumn ==
  /\ sortConfig \in [key : SortKeys, direction : Directions]
  /\ \A i, j \in 1..Len(sortedResults) :
       (i < j /\ sortedResults[i][sortConfig.key] = sortedResults[j][sortConfig.key])
         => PositionOf(sortedResults[i].id) < PositionOf(sortedResults[j].id)

\* two rows tied on the sort column differ in another column
C9_Witness ==
  /\ sortConfig = [key |-> "totalScore", direction |-> "asc"]
  /\ Len(sortedResults) = 3
  /\ sortedResults[2].totalScore = sortedResults[3].totalScore
  /\ sortedResults[2].studentId # sortedResults[3].studentId

\* C10: the sorted rows are the filtered rows, none added, dropped or repeated, in
\* non-decreasing order of the sort column under 'asc' and non-increasing order under
\* 'desc'; a table that has just been opened sorts by total score, descending.
C10_SortedPermutation ==
  /\ Len(sortedResults) = Len(filteredResults)
  /\ \A i \in 1..Len(filteredResults) :
       Cardinality({j \in 1..Len(sortedResults) : sortedResults[j] = filteredResults[i]})
         = Cardinality({j \in 1..Len(filteredResults) : filteredResults[j] = filteredResults[i]})
  /\ \A i \in 1..(Len(sortedResults) - 1) :
       InOrder(sortedResults[i], sortedResults[i + 1], sortConfig.key)
  /\ view # "results" => sortConfig = InitialSortConfig

\* the rows (p-1)*10+1 .. p*10 of a list, as far as the list goes
RowsOfPage(rows, p) ==
  LET first == (p - 1) * RESULTS_PER_PAGE + 1
      last == IF p * RESULTS_PER_PAGE < Len(rows) THEN p * RESULTS_PER_PAGE ELSE Len(rows)
  IN [k \in 1..(IF last >= first THEN last - first + 1 ELSE 0) |-> rows[first + k - 1]]

\* C11: the current page shows rows (p-1)*10+1 .. p*10 of the sorted list and never
\* more than 10 rows; totalPages is ceil(n/10); over the pages 1..totalPages every
\* filtered result is shown on exactly one page, at one place.
C11_PagesPartition ==
  LET sorted == sortedResults
      n == Len(sorted)
      pages == [p \in 1..totalPages |-> PageOf(sorted, p)]
      ids == IdSeq(sorted)
      wanted == IdSeq(filteredResults)
  IN /\ paginatedResults = RowsOfPage(sorted, currentPage)
     /\ Len(paginatedResults) <= RESULTS_PER_PAGE
     /\ totalPages * RESULTS_PER_PAGE >= n
     /\ (totalPages - 1) * RESULTS_PER_PAGE < n
     /\ \A p \in 1..totalPages :
          /\ Len(pages[p]) \in 1..RESULTS_PER_PAGE
          /\ pages[p] = RowsOfPage(sorted, p)
     /\ \A i \in 1..Len(wanted) :
          Cardinality({ pk \in (1..totalPages) \X (1..RESULTS_PER_PAGE) :
                          /\ pk[2] <= Len(pages[pk[1]])
                          /\ pages[pk[1]][pk[2]].id = wanted[i] }) = 1

\* the third page of a list of 21 rows shows the one row left for it
C11_Witness ==
  /\ Len(sortedResults) = 21
  /\ totalPages = 3
  /\ currentPage = 3
  /\ Len(paginatedResults) = 1
  /\ sortConfig.key = "studentId"

\* the stored list after this step is the list before it with exactly the rows in ids
\* marked 'Complete' at confidence 1.0
ApprovedExactly(ids) ==
  /\ Len(studentResults') = Len(studentResults)
  /\ \A i \in 1..Len(studentResults) :
       studentResults'[i] =
         IF studentResults[i].id \in ids
         THEN [studentResults[i] EXCEPT !.status = "Complete",
                                         !.confidence = APPROVED_CONFIDENCE]
         ELSE studentResults[i]

\* C12: batch approve, and approve in the review modal, set status 'Complete' and
\* confidence 1.0 on every stored result whose id is approved, leave every other
\* result and the number and order of results as they are; batch approve empties
\* the selection.
C12_ApproveFrame ==
  [][ /\ approveSelected => (ApprovedExactly(selectedIds) /\ selectedIds' = {})
      /\ approveInModal => ApprovedExactly({selectedResult[1].id}) ]_vars

\* one of two results that needed review has been approved, the other has not
C12_Witness ==
  /\ Len(studentResults) = 2
  /\ studentResults[1].status = "Needs Review"
  /\ studentResults[2].status = "Complete"
  /\ studentResults[2].confidence = APPROVED_CONFIDENCE
  /\ studentResults[2].totalScore = studentResults[1].totalScore
  /\ selectedIds = {}

\* C13: a batch delete that the user confirms removes exactly the stored results
\* whose id is selected, keeps the others unchanged and in order, and empties the
\* selection; one that the user declines changes neither the results nor the
\* selection; and no stored result disappears during a session in any other way.
C13_DeleteFrame ==
  [][ /\ deleteSelected(TRUE) =>
           /\ studentResults' = SelectSeq(studentResults, LAMBDA r : r.id \notin selectedIds)
           /\ selectedIds' = {}
      /\ deleteSelected(FALSE) =>
           /\ studentResults' = studentResults
           /\ selectedIds' = selectedIds
      /\ (phase = "ready" /\ phase' = "ready"
            /\ \E i \in 1..Len(studentResults) :
                 \A j \in 1..Len(studentResults') : studentResults'[j].id # studentResults[i].id)
           => deleteSelected(TRUE) ]_vars

\* the first of two results has been deleted and the second is still there
C13_Witness ==
  /\ phase = "ready"
  /\ totalProcessed = 2
  /\ Len(studentResults) = 1
  /\ studentResults[1].id = 2
  /\ selectedIds = {}
  /\ view = "results"

\* what a click on the export button would produce now, in time zone offset
ExportNow(offset) ==
  ExportOutcome(DataToExport(studentResults, exportStatusFilter, exportStartDate,
                             exportEndDate, offset), offset)

ProcessingDay(res, offset) == (DateOf(res.processingDate) + offset) \div HOURS_PER_DAY

\* the stored results the claim C15 says are exported
ExportWanted(offset) ==
  SelectSeq(studentResults,
            LAMBDA res :
              /\ exportStatusFilter = "All" \/ res.status = exportStatusFilter
              /\ exportStartDate = NoDate \/ ProcessingDay(res, offset) >= exportStartDate[1]
              /\ exportEndDate = NoDate \/ ProcessingDay(res, offset) <= exportEndDate[1])

\* C15: the exported rows are, in stored order, exactly the stored results whose
\* status is the export status filter (any under 'All') and whose processing day is
\* not before the start date and not after the end date, an empty date being no bound.
C15_ExportedByDay ==
  [][ \A offset \in TimeZoneOffsets :
        exportToCSV(offset) => exported'.rows = CsvRows(ExportWanted(offset)) ]_vars

\* C16: when no stored result matches the export filters the export shows the alert
\* 'No results match the selected export filters.' and downloads nothing; it shows
\* the alert only when it has no row to export; and an export, with or without a
\* file, changes neither the stored results nor the selection, the table filters,
\* the sort or the page.
C16_ExportNoMatch ==
  [][ \A offset \in TimeZoneOffsets :
        exportToCSV(offset) =>
          /\ Len(ExportWanted(offset)) = 0 =>
               (exported'.kind = "alert" /\ exported'.message = NO_MATCH_MESSAGE)
          /\ exported'.kind \in {"alert", "file"}
          /\ exported'.kind = "alert" <=> Len(exported'.rows) = 0
          /\ exported'.kind = "file" => exported'.message = ""
          /\ UNCHANGED <<studentResults, selectedIds, searchTerm, statusFilter, sortConfig,
                         currentPage, storage, totalProcessed>> ]_vars

\* an export of two stored results, one of them selected, ended in the alert
C16_Witness ==
  /\ exported.kind = "alert"
  /\ exported.message = NO_MATCH_MESSAGE
  /\ Len(studentResults) = 2
  /\ selectedIds # {}
  /\ statusFilter = "Complete"

\* C17: an invocation of generateAnalyticsInsights issues at most one request, all
\* of it when it is called and none later (no retry); without an API key it issues
\* none and returns the fixed 'API Key not configured' message.
C17_OneRequest ==
  /\ [](\A c \in 1..Len(insightCalls) :
          /\ insightCalls[c].requests <= 1
          /\ insightCalls[c].key = NoKey =>
               /\ insightCalls[c].requests = 0
               /\ insightCalls[c].settled = "resolved"
               /\ insightCalls[c].value = NO_KEY_MESSAGE)
  /\ [][ \A c \in 1..Len(insightCalls) :
           c <= Len(insightCalls') => insightCalls'[c].requests = insightCalls[c].requests
      ]_vars

\* a request failed, the handler ran to its end, and the request was not repeated
C17_Witness ==
  /\ Len(insightCalls) = 2
  /\ insightCalls[1].key # NoKey
  /\ insightCalls[1].response = "error"
  /\ insightCalls[1].pc = "done"
  /\ insightCalls[1].requests = 1
  /\ insightCalls[2].pc = "done"

\* C18: the promise generateAnalyticsInsights returns never rejects; when the
\* external request fails it resolves with the fixed 'An error occurred ...' string;
\* and, the API answering, every invocation's promise resolves.
C18_NeverRejects ==
  /\ [](\A c \in 1..Len(insightCalls) :
          /\ insightCalls[c].settled # "rejected"
          /\ insightCalls[c].pc \in {"returned", "done"} => insightCalls[c].settled = "resolved"
          /\ insightCalls[c].response = "error" =>
               (insightCalls[c].settled = "resolved" /\ insightCalls[c].value = ERROR_MESSAGE))
  /\ \A c \in 1..MaxInsightCalls :
       (Len(insightCalls) >= c) ~> (Len(insightCalls) >= c /\ insightCalls[c].settled = "resolved")

\* the view shows the error string after a failed request
C18_Witness ==
  /\ view = "analytics"
  /\ insights = ERROR_MESSAGE
  /\ ~isLoadingInsights
  /\ \E c \in 1..Len(insightCalls) :
       insightCalls[c].response = "error" /\ insightCalls[c].settled = "resolved"

\* C19: every stored result has 50 answers, numbered 1..50 in order, ten for each
\* section; each section score is twice the number of correct answers of the
\* section, hence even and within 0..20; totalScore is the sum of the five section
\* scores, hence within 0..100.  Approve and delete keep it so.
C19_ScoresConsistent ==
  \A i \in 1..Len(studentResults) :
    LET r == studentResults[i]
        answers == AnswerDetails(r.answers)
    IN /\ Len(answers) = 50
       /\ \A q \in 1..Len(answers) : answers[q].question = q
       /\ DOMAIN r.sectionScores = 1..5
       /\ \A s \in 1..5 :
            LET ofSection == {q \in 1..Len(answers) :
                               answers[q].question \in ((s - 1) * 10 + 1)..(s * 10)}
            IN /\ Cardinality(ofSection) = 10
               /\ r.sectionScores[s] = 2 * Cardinality({q \in ofSection : answers[q].isCorrect})
               /\ r.sectionScores[s] % 2 = 0
               /\ r.sectionScores[s] \in 0..20
       /\ r.totalScore = r.sectionScores[1] + r.sectionScores[2] + r.sectionScores[3]
                           + r.sectionScores[4] + r.sectionScores[5]
       /\ r.totalScore \in 0..100

\* a result with one wrong answer has been approved after another was deleted
C19_Witness ==
  /\ Len(studentResults) = 1
  /\ totalProcessed = 2
  /\ studentResults[1].totalScore = 98
  /\ studentResults[1].sectionScores[5] = 18
  /\ studentResults[1].confidence = APPROVED_CONFIDENCE
  /\ studentResults[1].processingDate.rep = "String"

\* C20: the upload queue holds only JPEG, PNG, PDF and ZIP files, no two entries
\* with the same id, every entry 'pending' at progress 0; and adding files keeps the
\* entries already queued, in their order, at the front of the queue.
C20_QueueWellFormed ==
  /\ [](\A i \in 1..Len(files) :
          /\ files[i].type \in {"image/jpeg", "image/png", "application/pdf", "application/zip"}
          /\ files[i].status = "pending"
          /\ files[i].progress = 0
          /\ \A j \in 1..Len(files) : files[j].id = files[i].id => j = i)
  /\ [][ (\E types \in SeqsUpTo(InputTypes, MaxBatch) : handleFiles(types))
           => (/\ Len(files') >= Len(files)
               /\ SubSeq(files', 1, Len(files)) = files) ]_vars

\* a second file has been added behind the first
C20_Witness ==
  /\ view = "upload"
  /\ Len(files) = 2
  /\ files[1].id = 1 /\ files[2].id = 2
  /\ files[2].type = "image/png"

\* C21: the analytics view's average score is the sum of the stored totalScore
\* values divided by their number, and its pass rate is 100 times the fraction of
\* stored results with totalScore >= 50, so between 0 and 100; with no stored
\* result both are 0, and no division has a zero divisor.
C21_AnalyticsFigures ==
  LET n == Len(studentResults)
      sum == SumOver([i \in 1..n |-> studentResults[i].totalScore], 1..n)
      passed == Cardinality({i \in 1..n : studentResults[i].totalScore >= 50})
      avg == analyticsData.avgScore
      rate == analyticsData.passRate
  IN /\ avg.den > 0
     /\ rate.den > 0
     /\ \A s \in DOMAIN analyticsData.sectionAvgs : analyticsData.sectionAvgs[s].den > 0
     /\ IF n = 0
        THEN avg.num = 0 /\ rate.num = 0
        ELSE /\ avg.num * n = sum * avg.den
             /\ rate.num * n = 100 * passed * rate.den
             /\ 0 <= rate.num /\ rate.num <= 100 * rate.den

\* the analytics view over two results, one of them exactly at the pass mark and
\* one below it
C21_Witness ==
  /\ view = "analytics"
  /\ Len(studentResults) = 2
  /\ \E i, j \in 1..2 : studentResults[i].totalScore = 50 /\ studentResults[j].totalScore < 50
  /\ analyticsData.passRate = [num |-> 100, den |-> 2]

\* every stored result has been deleted
C21_WitnessEmpty ==
  /\ Len(studentResults) = 0
  /\ totalProcessed > 0
  /\ analyticsData.avgScore.num = 0

\* C22: after every step that changes the search term, the status filter or the
\* current page of the review table, no row is selected.
C22_SelectionReset ==
  [][(searchTerm' # searchTerm \/ statusFilter' # statusFilter \/ currentPage' # currentPage)
       => selectedIds' = {}]_vars

\* the second page has been reached after rows of the first page were selected
\* and approved
C22_Witness ==
  /\ TableOpen
  /\ searchTerm = <<>>
  /\ statusFilter = "All"
  /\ currentPage = 2
  /\ selectedIds = {}
  /\ Len(paginatedResults) = 1
  /\ \E i \in 1..Len(studentResults) : studentResults[i].confidence = APPROVED_CONFIDENCE

\* C23: every selected id is the id of a row shown on the current page of the
\* review table.
C23_SelectionOnPage ==
  (phase = "ready" /\ view = "results") => selectedIds \subseteq IdsOf(paginatedResults)

\* the "Showing X to Y of Z results" line of the pagination bar
showingFrom == (currentPage - 1) * RESULTS_PER_PAGE + 1

showingTo ==
  IF currentPage * RESULTS_PER_PAGE < Len(sortedResults)
  THEN currentPage * RESULTS_PER_PAGE ELSE Len(sortedResults)

\* C24: the current page of the review table is at least 1 and at most
\* max(1, totalPages); no empty page is shown while filtered results exist, and
\* the range of the "Showing X to Y" line has X <= Y for a non-empty list.
C24_PageInRange ==
  (phase = "ready" /\ view = "results") =>
    LET sorted == sortedResults
        pages == (Len(sorted) + RESULTS_PER_PAGE - 1) \div RESULTS_PER_PAGE
    IN /\ 1 <= currentPage
       /\ currentPage <= (IF pages > 1 THEN pages ELSE 1)
       /\ Len(sorted) > 0 => Len(PageOf(sorted, currentPage)) > 0
       /\ Len(sorted) > 0 => showingFrom <= showingTo

\* C25: a change of the search term or of the status filter sets the current page
\* to 1; the previous-page control decreases the page by exactly one and never
\* below 1; the next-page control increases it by exactly one and never above
\* totalPages.
C25_PageMoves ==
  [][/\ ((\E term \in SearchTerms : setSearchTerm(term))
           \/ (\E filter \in StatusFilters : setStatusFilter(filter)))
          => currentPage' = 1
     /\ prevPage => (currentPage' = currentPage - 1 /\ currentPage' >= 1)
     /\ nextPage => (currentPage' = currentPage + 1 /\ currentPage' <= totalPages)]_vars

\* C26: the sort state always holds exactly one key and one direction; a
\* requestSort(key) step changes it, to key descending if it was key ascending and
\* to key ascending in every other case, and every step that changes the sort
\* state is such a step and leaves the search term, the status filter and the
\* current page as they were.
C26_SortToggle ==
  /\ sortConfig \in [key : SortKeys, direction : Directions]
  /\ [][/\ sortConfig' \in [key : SortKeys, direction : Directions]
        /\ (\E key \in SortKeys : requestSort(key)) => sortConfig' # sortConfig
        /\ sortConfig' # sortConfig =>
             /\ sortConfig'.direction =
                  (IF sortConfig = [key |-> sortConfig'.key, direction |-> "asc"]
                   THEN "desc" ELSE "asc")
             /\ UNCHANGED <<searchTerm, statusFilter, currentPage>>]_vars

\* the second page under a status filter, sorted by a column clicked twice
C26_Witness ==
  /\ TableOpen
  /\ sortConfig = [key |-> "studentId", direction |-> "desc"]
  /\ statusFilter = "Complete"
  /\ currentPage = 2

\* C27: the select-all box shows checked exactly when the current page has rows
\* and all of them are selected; a click on it while unchecked makes the selection
\* the set of ids of the current page, a click on it while checked empties the
\* selection; a click on a row's box adds that id if it was not selected and
\* removes it if it was, and changes nothing else of the selection.
C27_SelectAll ==
  /\ [](isAllSelectedOnPage <=>
          (Len(paginatedResults) > 0
             /\ \A i \in 1..Len(paginatedResults) : paginatedResults[i].id \in selectedIds))
  /\ [][LET rows == paginatedResults
            checked == Len(rows) > 0 /\ \A i \in 1..Len(rows) : rows[i].id \in selectedIds
        IN /\ handleSelectAll =>
                selectedIds' = (IF checked THEN {} ELSE {rows[i].id : i \in 1..Len(rows)})
           /\ \A id \in 1..MaxSelectRows :
                handleSelect(id) =>
                  /\ (id \in selectedIds') # (id \in selectedIds)
                  /\ selectedIds' \ {id} = selectedIds \ {id}]_vars

\* every row of the second page is selected and the box is checked, while the
\* first page has rows that are not
C27_Witness ==
  /\ TableOpen
  /\ currentPage = 2
  /\ Len(paginatedResults) > 0
  /\ selectedIds = IdsOf(paginatedResults)
  /\ isAllSelectedOnPage

\* C28: a processing run acts on the application only while its processing view
\* is shown: the completion of a run is delivered (appending its results, raising
\* totalProcessed, switching the view to 'results') only in the view 'processing'
\* and only for the run whose dashboard is mounted.
C28_OnlyWhileShown ==
  [][\A r \in 1..Len(runs) :
       handleProcessingComplete(r) => (view = "processing" /\ runs[r].mounted)]_vars

\* C29: the completion of a run appends the results the run delivers to the end of
\* the list stored at that moment, none of them stored before, raises
\* totalProcessed by their number, and is the run's last step; approving and
\* deleting change neither the results a pending run holds nor totalProcessed.
\* This holds whatever was approved or deleted, and whichever other run
\* completed, between the start of the run and its completion.
C29_DeliveredOnce ==
  [][/\ \A r \in 1..Len(runs) :
          handleProcessingComplete(r) =>
            LET delivered == runs[r].generatedResults
            IN /\ studentResults' = studentResults \o delivered
               /\ totalProcessed' = totalProcessed + Len(delivered)
               /\ \A i \in 1..Len(delivered), j \in 1..Len(studentResults) :
                    delivered[i].id # studentResults[j].id
               /\ runs'[r].pc = "done"
     /\ (approveInModal \/ approveSelected \/ deleteSelected(TRUE)) =>
          /\ totalProcessed' = totalProcessed
          /\ \A r \in 1..Len(runs) : runs'[r].generatedResults = runs[r].generatedResults]_vars

\* two runs have delivered one result each, the run started second first; its
\* result has been approved, the other one has not
C29_Witness ==
  /\ Len(runs) = 2
  /\ \A r \in 1..2 : runs[r].pc = "done"
  /\ Len(studentResults) = 2
  /\ studentResults[1].id = 2 /\ studentResults[2].id = 1
  /\ studentResults[1].confidence = APPROVED_CONFIDENCE
  /\ studentResults[2].confidence # APPROVED_CONFIDENCE
  /\ totalProcessed = 2

\* C30: no two stored results have the same id.
C30_DistinctIds ==
  \A i, j \in 1..Len(studentResults) :
    studentResults[i].id = studentResults[j].id => i = j

\* a result of an earlier session, loaded from localStorage, next to a result of a
\* run of this session
C30_Witness ==
  /\ phase = "ready"
  /\ Len(studentResults) = 2
  /\ studentResults[1].processingDate.rep = "String"
  /\ studentResults[2].processingDate.rep = "Date"
  /\ studentResults[1].id # studentResults[2].id

\* C31: the results view and the analytics view are shown only while at least one
\* result is stored.
C31_ViewsHaveResults ==
  (phase = "ready" /\ view \in {"results", "analytics"}) => Len(studentResults) > 0

\* C32: every stored result has status 'Needs Review' exactly if its confidence
\* is below 0.9, and its confidence lies within 0.8..1.0 (in hundredths: 90,
\* 80..100).
C32_StatusByConfidence ==
  \A i \in 1..Len(studentResults) :
    /\ (studentResults[i].status = "Needs Review") <=> (studentResults[i].confidence < 90)
    /\ studentResults[i].status \in {"Needs Review", "Complete"}
    /\ 80 <= studentResults[i].confidence /\ studentResults[i].confidence <= 100

\* an approved result (no result is generated with confidence 1.0) next to one
\* generated at exactly 0.9 and so complete from the start
C32_Witness ==
  /\ Len(studentResults) = 2
  /\ studentResults[1].status = "Complete"
  /\ studentResults[1].confidence = APPROVED_CONFIDENCE
  /\ studentResults[2].confidence = 90
  /\ studentResults[2].status = "Complete"

\* C33: the counter of processed sheets never decreases while the page is open,
\* and a reload brings back the value it had: a completion adds the number of
\* results the run delivers, approving and deleting leave it unchanged, a reload
\* happens with the counter's value in localStorage (or with 0 and nothing saved)
\* and the load after it restores that value; from empty storage the counter is
\* at least the number of stored results.
C33_CounterGrows ==
  /\ [](phase = "ready" => totalProcessed >= Len(studentResults))
  /\ [][/\ (phase = "ready" /\ phase' = "ready") => totalProcessed' >= totalProcessed
        /\ \A r \in 1..Len(runs) :
             handleProcessingComplete(r) =>
               totalProcessed' = totalProcessed + Len(runs[r].generatedResults)
        /\ (approveInModal \/ approveSelected \/ \E c \in BOOLEAN : deleteSelected(c))
             => totalProcessed' = totalProcessed
        /\ Reload =>
             IF storage.totalProcessed = NoItem
             THEN totalProcessed = 0
             ELSE JSONParse(storage.totalProcessed[1]) = totalProcessed
        /\ CommitLoad =>
             IF storage.totalProcessed = NoItem
             THEN totalProcessed' = 0
             ELSE totalProcessed' = JSONParse(storage.totalProcessed[1])]_vars

\* two sheets were processed and both results deleted
C33_Witness ==
  /\ phase = "ready"
  /\ totalProcessed = 2
  /\ Len(studentResults) = 0
  /\ \A r \in 1..Len(runs) : runs[r].pc = "done"

\* C34: on the stored list, approving a set of ids twice gives the list that
\* approving it once gives, deleting a set of ids twice gives the list that
\* deleting it once gives, and for disjoint sets A and B approving A and then
\* deleting B gives the list that deleting B and then approving A gives.  The
\* sets range over the ids of stored results and one id that is not stored.
C34_ApproveDeleteAlgebra ==
  LET prev == studentResults
      Ids == SUBSET (1..(MaxScoredRows + 1))
  IN /\ \A A \in Ids :
          /\ ApprovedResults(ApprovedResults(prev, A), A) = ApprovedResults(prev, A)
          /\ RemainingResults(RemainingResults(prev, A), A) = RemainingResults(prev, A)
     /\ \A A, B \in Ids :
          A \cap B = {} =>
            RemainingResults(ApprovedResults(prev, A), B)
              = ApprovedResults(RemainingResults(prev, B), A)

\* of two stored results one has been approved and the other one deleted;
\* approving or deleting the same ids again changes nothing
C34_Witness ==
  /\ Len(studentResults) = 1
  /\ totalProcessed = 2
  /\ studentResults[1].id = 1
  /\ studentResults[1].confidence = APPROVED_CONFIDENCE
  /\ ApprovedResults(studentResults, {1}) = studentResults
  /\ RemainingResults(studentResults, {2}) = studentResults

\* C35: while the analytics view is shown at most one insights request is
\* outstanding and the loading flag is true while one is; the generate control is
\* used only when nothing is loading and no insights text is shown; and, the API
\* answering, a loading flag that is true becomes false again.
C35_OneOutstanding ==
  /\ [](view = "analytics" =>
          Cardinality({c \in 1..Len(insightCalls) : insightCalls[c].pc = "awaiting"}) <= 1)
  /\ [](view = "analytics" =>
          \A c \in 1..Len(insightCalls) : insightCalls[c].pc = "awaiting" => isLoadingInsights)
  /\ [][(\E key \in ApiKeys : handleGenerateInsights(key))
          => (~isLoadingInsights /\ insights = "")]_vars
  /\ isLoadingInsights ~> ~isLoadingInsights

================================================================================
